---- MODULE Spec2Model ----
(***************************************************************************)
(* A model of easyocr.Reader (src/easyocr/easyocr.py): construction        *)
(* (__init__), the calls detect, recognize and readtext, and the two       *)
(* methods setModelLanguage and setLanguageList, which __init__ runs and   *)
(* which a caller may run again on a Reader that is built.                 *)
(*                                                                         *)
(* The helpers imported from .utils, .detection, .recognition and .config  *)
(* are not part of src/.  The two neural networks are oracles whose        *)
(* answers are inputs of the calls; the other helpers are modelled from    *)
(* the written specification and from the way easyocr.py calls them.       *)
(*                                                                         *)
(* Python values are encoded as follows.  A list the code only tests for   *)
(* truthiness (rotation_info, allowlist, blocklist) is a sequence or a     *)
(* set, None and the empty value coinciding; min_size None is 0, for the   *)
(* same reason.  The constructor's lang_list is a set: the code reads it   *)
(* only through `in`, set() and a loop whose result is a set; the list     *)
(* handed to setLanguageList is a sequence, since the loop stops at the    *)
(* first language without a character file.  Characters are tokens.        *)
(***************************************************************************)
EXTENDS Integers, Sequences, FiniteSets, TLC

VARIABLES
    pc,       \* "new" | "ready" | "failed": the Reader's life cycle
    args,     \* the arguments and the environment of Reader(...)
    self,     \* the Reader's attributes
    self0,    \* the Reader's attributes when construction finished
    fs,       \* the model files in model_storage_directory
    ctor,     \* what __init__ did: error raised, files the networks were loaded from
    call,     \* the call in progress: arguments, stages run, outcome
    earlier,  \* TRUE once a call on the Reader has come to its end
    hist      \* the languages whose character files the Reader last read, whether
              \* that reading came to its end, and whether a caller has run
              \* setLanguageList or setModelLanguage since construction

vars == <<pc, args, self, self0, fs, ctor, call, earlier, hist>>

\* ------------------------------------------------------------------ bounds

\* longest lang_list
MaxLangs == 2
\* most boxes in one call (horizontal and free-form together)
MaxBoxes == 2
\* longest rotation_info
MaxAngles == 2
\* largest min_size
MaxMinSize == 2

\* ------------------------------------------------------- small utilities

Max(a, b) == IF a >= b THEN a ELSE b

Min(a, b) == IF a <= b THEN a ELSE b

SetMax(S) == CHOOSE m \in S : \A x \in S : x <= m

SetMin(S) == CHOOSE m \in S : \A x \in S : m <= x

\* sequences over S of length lo..hi
SeqsUpTo(S, lo, hi) == UNION {[1..n -> S] : n \in lo..hi}

\* sequences without repetition
Distinct(s) == \A i, j \in 1..Len(s) : i # j => s[i] # s[j]

\* --------------------------------------------------------- .config tables

\* language groups, as the literals of __init__ spell them
bengali_lang_list == {"bn", "as"}

arabic_lang_list == {"ar", "fa", "ur", "ug"}

devanagari_lang_list == {"hi", "mr", "ne"}

cyrillic_lang_list == {"ru", "rs_cyrillic", "be", "bg", "uk", "mn"}

\* two representatives of the latin group (its table is in .config)
latin_lang_list == {"en", "fr"}

other_lang_list == {"th", "ch_tra", "ch_sim", "ja", "ko", "ta", "te", "kn"}

all_lang_list ==
    latin_lang_list \cup arabic_lang_list \cup bengali_lang_list
    \cup cyrillic_lang_list \cup devanagari_lang_list \cup other_lang_list

\* a language code the tables do not know
UnknownLangs == {"xx"}

\* character tokens: one per class of characters the code concatenates
number == {"0"}

symbol == {"!"}

Characters(key) ==
    CASE key = "en_char" -> {"a"}
      [] key = "all_char" -> {"a", "e'"}
      [] OTHER -> {key}

\* <lang>_char.txt: the native characters of a language
LangCharFile(lang) ==
    CASE lang = "en" -> {"a"}
      [] lang = "fr" -> {"a", "e'"}
      [] lang \in arabic_lang_list -> {"ar_char"}
      [] lang \in cyrillic_lang_list -> {"cyrillic_char"}
      [] lang \in devanagari_lang_list -> {"devanagari_char"}
      [] lang \in bengali_lang_list -> {"bn_char"}
      [] lang = "th" -> {"th_char"}
      [] lang = "ch_tra" -> {"ch_tra_char"}
      [] lang = "ch_sim" -> {"ch_sim_char"}
      [] lang = "ja" -> {"ja_char"}
      [] lang = "ko" -> {"ko_char"}
      [] lang = "ta" -> {"ta_char"}
      [] lang = "te" -> {"te_char"}
      [] lang = "kn" -> {"kn_char"}
      [] OTHER -> {}

\* a user network's yaml: lang_list and character_list
UserNetworkLangs == {"en", "fr"}

UserNetworkCharacter == number \cup symbol \cup Characters("all_char")

\* ------------------------------------------------------------- __init__

\* self.device
Device(gpu, cuda_available) ==
    IF gpu = "False" THEN "cpu"
    ELSE IF ~cuda_available THEN "cpu"
    ELSE IF gpu = "True" THEN "cuda"
    ELSE gpu

\* the download without the assert on the checksum
DownloadAndVerify_NoAssert(dl) ==
    IF dl = "fail" THEN [error |-> "URLError", file |-> "missing"]
    ELSE [error |-> "", file |-> dl]

\* download_and_unzip followed by the assert on the checksum: `dl` is what the
\* download leaves on disk ("good", "bad", or "fail": the download raised)
DownloadAndVerify(dl) ==
    IF dl = "fail" THEN [error |-> "URLError", file |-> "missing"]
    ELSE IF dl # "good" THEN [error |-> "AssertionError", file |-> dl]
    ELSE [error |-> "", file |-> dl]

\* the check of one enabled model file ("missing", "bad": checksum differs,
\* "good"): the error raised ("" for none) and the file left on disk
ModelFileCheck(file, download_enabled, dl) ==
    IF file = "missing"
    THEN IF ~download_enabled
         THEN [error |-> "FileNotFoundError", file |-> file]
         ELSE DownloadAndVerify(dl)
    ELSE IF file # "good"
    THEN IF ~download_enabled
         THEN [error |-> "FileNotFoundError", file |-> file]
         ELSE DownloadAndVerify(dl)
    ELSE [error |-> "", file |-> file]

\* model_lang set without the compatibility check
setModelLanguage_NoCheck(language, lang_list, list_lang, list_lang_string) ==
    [model_lang |-> language, error |-> ""]

\* setModelLanguage: model_lang is set, then the compatibility check may
\* raise.  `list_lang_string` is the type of the fourth argument, "str" or
\* "list": the message is built as str + list_lang_string, which raises
\* TypeError in place of the ValueError when it is handed a list
setModelLanguage(language, lang_list, list_lang, list_lang_string) ==
    [model_lang |-> language,
     error |-> IF lang_list \ list_lang # {}
               THEN IF list_lang_string = "str" THEN "ValueError" ELSE "TypeError"
               ELSE ""]

\* "choose recognition model": the elif chain of __init__
ChooseModel(lang_list) ==
    IF "th" \in lang_list THEN setModelLanguage("thai", lang_list, {"th", "en"}, "str")
    ELSE IF "ch_tra" \in lang_list
    THEN setModelLanguage("chinese_tra", lang_list, {"ch_tra", "en"}, "str")
    ELSE IF "ch_sim" \in lang_list
    THEN setModelLanguage("chinese_sim", lang_list, {"ch_sim", "en"}, "str")
    ELSE IF "ja" \in lang_list THEN setModelLanguage("japanese", lang_list, {"ja", "en"}, "str")
    ELSE IF "ko" \in lang_list THEN setModelLanguage("korean", lang_list, {"ko", "en"}, "str")
    ELSE IF "ta" \in lang_list THEN setModelLanguage("tamil", lang_list, {"ta", "en"}, "str")
    ELSE IF "te" \in lang_list THEN setModelLanguage("telugu", lang_list, {"te", "en"}, "str")
    ELSE IF "kn" \in lang_list THEN setModelLanguage("kannada", lang_list, {"kn", "en"}, "str")
    ELSE IF lang_list \cap bengali_lang_list # {}
    THEN setModelLanguage("bengali", lang_list, bengali_lang_list \cup {"en"}, "str")
    ELSE IF lang_list \cap arabic_lang_list # {}
    THEN setModelLanguage("arabic", lang_list, arabic_lang_list \cup {"en"}, "str")
    ELSE IF lang_list \cap devanagari_lang_list # {}
    THEN setModelLanguage("devanagari", lang_list, devanagari_lang_list \cup {"en"}, "str")
    ELSE IF lang_list \cap cyrillic_lang_list # {}
    THEN setModelLanguage("cyrillic", lang_list, cyrillic_lang_list \cup {"en"}, "str")
    ELSE [model_lang |-> "latin", error |-> ""]

\* the standard network's language check: unknown languages, then the group
StandardLanguageCheck(lang_list) ==
    IF lang_list \ all_lang_list # {}
    THEN [model_lang |-> "", error |-> "ValueError"]
    ELSE ChooseModel(lang_list)

\* self.character of the standard models
ModelCharacter(model_lang) ==
    LET en == number \cup symbol \cup Characters("en_char") IN
    CASE model_lang = "latin" -> number \cup symbol \cup Characters("all_char")
      [] model_lang = "arabic" ->
            en \cup Characters("ar_number") \cup Characters("ar_symbol")
               \cup Characters("ar_char")
      [] model_lang = "cyrillic" -> en \cup Characters("cyrillic_char")
      [] model_lang = "devanagari" -> en \cup Characters("devanagari_char")
      [] model_lang = "bengali" -> en \cup Characters("bn_char")
      [] model_lang = "chinese_tra" -> en \cup Characters("ch_tra_char")
      [] model_lang = "chinese_sim" -> en \cup Characters("ch_sim_char")
      [] model_lang = "japanese" -> en \cup Characters("ja_char")
      [] model_lang = "korean" -> en \cup Characters("ko_char")
      [] model_lang = "tamil" -> en \cup Characters("ta_char")
      [] model_lang = "telugu" -> en \cup Characters("te_char")
      [] model_lang = "kannada" -> en \cup Characters("kn_char")
      [] model_lang = "thai" ->
            {"sep_th", "sep_en"} \cup symbol \cup Characters("en_char")
               \cup Characters("th_char") \cup Characters("th_number")
      [] OTHER -> {}

\* the package holds a <lang>_char.txt for every language it supports
CharFileExists(lang) == lang \in all_lang_list

\* a set of languages as a list
RECURSIVE ListOf(_)
ListOf(S) ==
    IF S = {} THEN <<>>
    ELSE LET x == CHOOSE y \in S : TRUE IN <<x>> \o ListOf(S \ {x})

\* the languages of the list that come before the first one without a
\* character file
RECURSIVE ReadBefore(_)
ReadBefore(lang_list) ==
    IF lang_list = <<>> \/ ~CharFileExists(Head(lang_list)) THEN {}
    ELSE {Head(lang_list)} \cup ReadBefore(Tail(lang_list))

\* setLanguageList on a list of languages: self.lang_char is emptied, then
\* grows by one character file per language; the digits and symbols are added
\* once every file is read.  A language without a file stops the loop with
\* open's error, and lang_char stays what the files before it gave
setLanguageList(lang_list) ==
    LET read == ReadBefore(lang_list)
        chars == UNION {LangCharFile(lang) : lang \in read}
    IN  IF \E i \in 1..Len(lang_list) : ~CharFileExists(lang_list[i])
        THEN [error |-> "FileNotFoundError", lang_char |-> chars, read |-> read]
        ELSE [error |-> "", lang_char |-> chars \cup (number \cup symbol), read |-> read]

\* get_detector / get_recognizer reading a model file: a missing file cannot be
\* read; a file that is not the published one may or may not load (`bad_loads`)
LoadFails(file, bad_loads) ==
    \/ file = "missing"
    \/ file = "bad" /\ ~bad_loads

NoSelf ==
    [device |-> "", model_lang |-> "", character |-> {}, lang_char |-> {},
     has_detector |-> FALSE, has_recognizer |-> FALSE]

NoCtor == [error |-> "", det_loaded_from |-> "none", rec_loaded_from |-> "none"]

Failed(error, files, c) ==
    [pc |-> "failed", self |-> NoSelf, fs |-> files, ctor |-> [c EXCEPT !.error = error]]

\* the recognition model's file check: only the standard branch has one
RecognitionFileCheck(a, file) ==
    IF a.recog_network = "standard" /\ a.recognizer
    THEN ModelFileCheck(file, a.download_enabled, a.dl_rec)
    ELSE [error |-> "", file |-> file]

\* the language check of the chosen network
LanguageCheck(a) ==
    IF a.recog_network # "standard"
    THEN setModelLanguage(a.recog_network, a.lang_list, UserNetworkLangs, "list")
    ELSE StandardLanguageCheck(a.lang_list)

\* Reader.__init__ as a whole, from arguments `a` and the files `f` on disk: the
\* Reader it builds or the error it raises, and the files it leaves
Init__(a, f) ==
    LET det == IF a.detector
               THEN ModelFileCheck(f.det, a.download_enabled, a.dl_det)
               ELSE [error |-> "", file |-> f.det]
        f1 == [f EXCEPT !.det = det.file]
        lang == LanguageCheck(a)
        rec == RecognitionFileCheck(a, f.rec)
        f2 == [f1 EXCEPT !.rec = rec.file]
        character == IF a.recog_network # "standard" THEN UserNetworkCharacter
                     ELSE ModelCharacter(lang.model_lang)
        chars == setLanguageList(ListOf(a.lang_list))
        c1 == [NoCtor EXCEPT !.det_loaded_from = IF a.detector THEN f2.det ELSE "none"]
        c2 == [c1 EXCEPT !.rec_loaded_from = IF a.recognizer THEN f2.rec ELSE "none"]
    IN
    IF det.error # "" THEN Failed(det.error, f1, NoCtor)
    ELSE IF lang.error # "" THEN Failed(lang.error, f1, NoCtor)
    ELSE IF rec.error # "" THEN Failed(rec.error, f2, NoCtor)
    ELSE IF chars.error # "" THEN Failed(chars.error, f2, NoCtor)
    ELSE IF a.detector /\ LoadFails(f2.det, a.bad_loads)
    THEN Failed("LoadError", f2, NoCtor)
    ELSE IF a.recognizer /\ LoadFails(f2.rec, a.bad_loads)
    THEN Failed("LoadError", f2, c1)
    ELSE [pc |-> "ready",
          self |-> [device |-> Device(a.gpu, a.cuda_available),
                    model_lang |-> lang.model_lang,
                    character |-> character,
                    lang_char |-> chars.lang_char,
                    has_detector |-> a.detector,
                    has_recognizer |-> a.recognizer],
          fs |-> f2,
          ctor |-> c2]

\* ------------------------------------------------------------ geometry

\* a horizontal box is <<x_min, x_max, y_min, y_max>>; a free-form box is four
\* points <<x, y>>
Quad(b) == << <<b[1], b[3]>>, <<b[2], b[3]>>, <<b[2], b[4]>>, <<b[1], b[4]>> >>

Xs(q) == {q[i][1] : i \in 1..4}

Ys(q) == {q[i][2] : i \in 1..4}

\* utils.diff: the extent of a list of coordinates
diff(S) == SetMax(S) - SetMin(S)

\* the size detect compares with min_size
HorizontalSize(b) == Max(b[2] - b[1], b[4] - b[3])

FreeSize(q) == Max(diff(Xs(q)), diff(Ys(q)))

\* a crop of zero area cannot be rectified
DegenerateQuad(q) == diff(Xs(q)) = 0 \/ diff(Ys(q)) = 0

\* ---------------------------------------------------------------- detect

RECURSIVE KeepHorizontal(_, _)
KeepHorizontal(list, min_size) ==
    IF list = <<>> THEN <<>>
    ELSE IF HorizontalSize(Head(list)) > min_size
         THEN <<Head(list)>> \o KeepHorizontal(Tail(list), min_size)
         ELSE KeepHorizontal(Tail(list), min_size)

RECURSIVE KeepFree(_, _)
KeepFree(list, min_size) ==
    IF list = <<>> THEN <<>>
    ELSE IF FreeSize(Head(list)) > min_size
         THEN <<Head(list)>> \o KeepFree(Tail(list), min_size)
         ELSE KeepFree(Tail(list), min_size)

\* detect after group_text_box: `d` holds the clusterer's two lists and min_size
DetectFilter(d) ==
    IF d.min_size # 0
    THEN [horizontal_list |-> KeepHorizontal(d.horizontal_list, d.min_size),
          free_list |-> KeepFree(d.free_list, d.min_size)]
    ELSE [horizontal_list |-> d.horizontal_list, free_list |-> d.free_list]

\* ------------------------------------------------- helpers of recognize

\* recognize(img) without boxes: the whole image is the one crop
WholeImage == << <<0, 0>>, <<3, 0>>, <<3, 2>>, <<0, 2>> >>

\* a crop is (box, image); the image is named by the box's position in the
\* call and the angle it was rotated by
Crop(box, i, angle) == [box |-> box, img |-> <<i, angle>>]

\* get_image_list: one crop per box, horizontal boxes first, then free-form
\* boxes; a degenerate box raises
get_image_list(horizontal_list, free_list) ==
    LET boxes == [i \in 1..Len(horizontal_list) |-> Quad(horizontal_list[i])] \o free_list
    IN  IF \E i \in 1..Len(boxes) : DegenerateQuad(boxes[i])
        THEN [error |-> "DegenerateBoxError", image_list |-> <<>>]
        ELSE [error |-> "",
              image_list |-> [i \in 1..Len(boxes) |-> Crop(boxes[i], i, 0)]]

\* make_rotated_img_list: the crops as they are, then for every angle in the
\* caller's order every crop rotated by it, all sharing their box
RECURSIVE make_rotated_img_list(_, _)
make_rotated_img_list(rotation_info, image_list) ==
    IF rotation_info = <<>> THEN image_list
    ELSE LET rest == make_rotated_img_list(
                        SubSeq(rotation_info, 1, Len(rotation_info) - 1), image_list)
             angle == rotation_info[Len(rotation_info)]
         IN  rest \o [i \in 1..Len(image_list) |->
                        Crop(image_list[i].box, image_list[i].img[1], angle)]

\* the recognizer oracle's confidence for the j-th of the crops of n boxes:
\* `conf` holds one row of levels per box (the rows taken in turn when there
\* are more boxes than rows), and a row one level per variant
RecognizerConfidence(conf, j, n) ==
    LET v == (j - 1) \div n
        i == ((j - 1) % n) + 1
        row == conf[((i - 1) % Len(conf)) + 1]
    IN  row[(v % Len(row)) + 1]

\* get_text: one (box, text, confidence) per crop, in the crops' order; the
\* text is what the recognizer reads in that image
get_text(image_list, conf, n) ==
    [j \in 1..Len(image_list) |->
        [box |-> image_list[j].box,
         text |-> [img |-> image_list[j].img, order |-> "logical"],
         conf |-> RecognizerConfidence(conf, j, n)]]

\* bidi get_display: logical order to visual order
get_display(text) == [text EXCEPT !.order = "visual"]

\* lines in the order get_paragraph reads them: top to bottom, then along the
\* reading direction
Before(l, m, mode) ==
    LET yl == SetMin(Ys(l.box))
        ym == SetMin(Ys(m.box))
        xl == SetMin(Xs(l.box))
        xm == SetMin(Xs(m.box))
    IN  \/ yl < ym
        \/ yl = ym /\ (IF mode = "rtl" THEN xl > xm ELSE xl < xm)

RECURSIVE InsertLine(_, _, _)
InsertLine(sorted, l, mode) ==
    IF sorted = <<>> THEN <<l>>
    ELSE IF Before(l, Head(sorted), mode) THEN <<l>> \o sorted
         ELSE <<Head(sorted)>> \o InsertLine(Tail(sorted), l, mode)

RECURSIVE SortLines(_, _)
SortLines(lines, mode) ==
    IF lines = <<>> THEN <<>>
    ELSE InsertLine(SortLines(SubSeq(lines, 1, Len(lines) - 1), mode),
                    lines[Len(lines)], mode)

\* the paragraph a line starts, and the paragraph grown by a line
ParagraphOf(l) ==
    [box |-> <<SetMin(Xs(l.box)), SetMax(Xs(l.box)), SetMin(Ys(l.box)), SetMax(Ys(l.box))>>,
     text |-> <<l.text>>]

Grown(p, l) ==
    [box |-> <<Min(p.box[1], SetMin(Xs(l.box))), Max(p.box[2], SetMax(Xs(l.box))),
               Min(p.box[3], SetMin(Ys(l.box))), Max(p.box[4], SetMax(Ys(l.box)))>>,
     text |-> Append(p.text, l.text)]

RECURSIVE MergeLines(_, _)
MergeLines(acc, lines) ==
    IF lines = <<>> THEN acc
    ELSE LET l == Head(lines)
             last == acc[Len(acc)]
         IN  IF acc # <<>> /\ SetMin(Ys(l.box)) <= last.box[4]
             THEN MergeLines([acc EXCEPT ![Len(acc)] = Grown(last, l)], Tail(lines))
             ELSE MergeLines(Append(acc, ParagraphOf(l)), Tail(lines))

\* get_paragraph: lines that touch vertically merge into one paragraph, a
\* (bounding box, merged text) pair without a confidence
get_paragraph(result, mode) ==
    LET merged == MergeLines(<<>>, SortLines(result, mode))
    IN  [p \in 1..Len(merged) |-> [box |-> Quad(merged[p].box), text |-> merged[p].text]]

\* the variants of box i taken from the places next to i
BestVariant_Neighbours(result_list, origin_len, i) ==
    LET set_len == Len(result_list) \div origin_len
        places == {i + v : v \in 0..set_len} \cap (1..Len(result_list))
        top == SetMax({result_list[j].conf : j \in places})
    IN  result_list[SetMin({j \in places : result_list[j].conf = top})]

\* how far an angle turns a crop away from upright
RotationAmount(angle) == Min(angle % 360, 360 - (angle % 360))

\* the variant of box i that wins: the highest confidence, and among variants
\* tied for it the one closest to angle 0.  The angle of a result is the one
\* of the image its text was read from.  Two tied variants as far from angle
\* 0 as each other (90 and 270) are not told apart by the written
\* specification: the earlier one in the list is taken
BestVariant(result_list, origin_len, i) ==
    LET set_len == Len(result_list) \div origin_len
        places == {i + v * origin_len : v \in 0..(set_len - 1)}
        top == SetMax({result_list[j].conf : j \in places})
        tied == {j \in places : result_list[j].conf = top}
        least == SetMin({RotationAmount(result_list[j].text.img[2]) : j \in tied})
    IN  result_list[SetMin({j \in tied :
                              RotationAmount(result_list[j].text.img[2]) = least})]

\* set_result_with_confidence: one result per original box; a list whose
\* entries carry no confidence cannot be collapsed
set_result_with_confidence(result_list, origin_len) ==
    IF \E j \in 1..Len(result_list) : "conf" \notin DOMAIN result_list[j]
    THEN [error |-> "IndexError", result |-> <<>>]
    ELSE IF Len(result_list) < origin_len
    THEN [error |-> "IndexError", result |-> <<>>]
    ELSE [error |-> "",
          result |-> [i \in 1..origin_len |-> BestVariant(result_list, origin_len, i)]]

\* -------------------------------------------------------------- recognize

\* the whole image taken whenever there is no horizontal box
ImageList_NoHorizontal(a) ==
    IF ~a.given \/ a.horizontal_list = <<>>
    THEN [error |-> "", image_list |-> <<Crop(WholeImage, 1, 0)>>]
    ELSE get_image_list(a.horizontal_list, a.free_list)

\* image_list: the whole image when no box list is given, else one crop per box
ImageList(a) ==
    IF ~a.given
    THEN [error |-> "", image_list |-> <<Crop(WholeImage, 1, 0)>>]
    ELSE get_image_list(a.horizontal_list, a.free_list)

\* the blocklist tested before the allowlist
IgnoreChar_BlockFirst(s, a) ==
    IF a.blocklist # {} THEN a.blocklist
    ELSE IF a.allowlist # {} THEN s.character \ a.allowlist
    ELSE s.character \ s.lang_char

\* ignore_char: what the recognizer must not output
IgnoreChar(s, a) ==
    IF a.allowlist # {} THEN s.character \ a.allowlist
    ELSE IF a.blocklist # {} THEN a.blocklist
    ELSE s.character \ s.lang_char

\* image_len taken after the rotated variants are added
Expand_LenAfter(rotation_info, image_list) ==
    LET expanded == IF rotation_info # <<>> /\ image_list # <<>>
                    THEN make_rotated_img_list(rotation_info, image_list)
                    ELSE image_list
    IN  [image_len |-> Len(expanded), image_list |-> expanded]

\* image_len is taken before the rotated variants are added
Expand(rotation_info, image_list) ==
    [image_len |-> Len(image_list),
     image_list |-> IF rotation_info # <<>> /\ image_list # <<>>
                    THEN make_rotated_img_list(rotation_info, image_list)
                    ELSE image_list]

\* the decoder get_text is called with
Decoder(s, a) ==
    IF s.model_lang \in {"chinese_tra", "chinese_sim", "japanese", "korean"}
    THEN "greedy"
    ELSE a.decoder

direction_mode(s) == IF s.model_lang = "arabic" THEN "rtl" ELSE "ltr"

\* right-to-left models: every text goes through get_display
Displayed(s, result) ==
    IF s.model_lang = "arabic"
    THEN [j \in 1..Len(result) |-> [result[j] EXCEPT !.text = get_display(@)]]
    ELSE result

\* if paragraph: get_paragraph
ParagraphStep(paragraph, result, mode) ==
    IF paragraph THEN get_paragraph(result, mode) ELSE result

\* if rotation_info and image_list: set_result_with_confidence
CollapseStep(rotation_info, image_list, result, image_len) ==
    IF rotation_info # <<>> /\ image_list # <<>>
    THEN set_result_with_confidence(result, image_len)
    ELSE [error |-> "", result |-> result]

\* detail == 0 returns the texts alone
Detail(detail, result) ==
    IF detail = 0 THEN [j \in 1..Len(result) |-> result[j].text] ELSE result

\* the helpers recognize calls after get_text, in the order it calls them;
\* get_display is called once per result, so not at all when there is none
StagesAfterText(s, a, image_list, result) ==
    (IF s.model_lang = "arabic" /\ result # <<>> THEN <<"get_display">> ELSE <<>>)
    \o (IF a.paragraph THEN <<"get_paragraph">> ELSE <<>>)
    \o (IF a.rotation_info # <<>> /\ image_list # <<>>
        THEN <<"set_result_with_confidence">> ELSE <<>>)

NoOut ==
    [outcome |-> "none", error |-> "", result |-> <<>>, image_len |-> 0,
     image_list |-> <<>>, ignore_char |-> {}, decoder |-> "", raw |-> <<>>,
     para_called |-> FALSE, para_in |-> <<>>, stages |-> <<>>]

\* the filter applied to the Reader's own character set
RecognizeSelf_StoresFilter(s, a) ==
    [s EXCEPT !.character = s.character \ a.blocklist]

\* recognize assigns locals only: the Reader it leaves is the Reader it found
RecognizeSelf(s, a) == s

\* Reader.recognize as a whole on Reader `s`
recognize(s, a) ==
    LET crops == ImageList(a)
        ex == Expand(a.rotation_info, crops.image_list)
        o1 == [NoOut EXCEPT !.image_len = ex.image_len,
                            !.image_list = ex.image_list,
                            !.ignore_char = IgnoreChar(s, a),
                            !.decoder = Decoder(s, a),
                            !.stages =
                               (IF a.given THEN <<"get_image_list">>
                                ELSE <<"cv2.resize">>)
                               \o (IF a.rotation_info # <<>> /\ crops.image_list # <<>>
                                   THEN <<"make_rotated_img_list">> ELSE <<>>)]
        raw == get_text(ex.image_list, a.conf, Max(ex.image_len, 1))
        shown == Displayed(s, raw)
        para == ParagraphStep(a.paragraph, shown, direction_mode(s))
        col == CollapseStep(a.rotation_info, ex.image_list, para, ex.image_len)
        o2 == [o1 EXCEPT !.raw = raw,
                         !.para_called = a.paragraph,
                         !.para_in = IF a.paragraph THEN shown ELSE <<>>,
                         !.stages = o1.stages \o <<"get_text">>
                                       \o StagesAfterText(s, a, ex.image_list, raw)]
    IN  IF crops.error # ""
        THEN [NoOut EXCEPT !.outcome = "raised", !.error = crops.error,
                           !.stages = <<"get_image_list">>]
        ELSE IF ~s.has_recognizer
        THEN [o1 EXCEPT !.outcome = "raised", !.error = "AttributeError"]
        ELSE IF col.error # ""
        THEN [o2 EXCEPT !.outcome = "raised", !.error = col.error]
        ELSE [o2 EXCEPT !.outcome = "returned", !.result = Detail(a.detail, col.result)]

\* ------------------------------------------------------------- the calls

NoDet == [horizontal_list |-> <<>>, free_list |-> <<>>, min_size |-> 0]

NoRec ==
    [given |-> TRUE, horizontal_list |-> <<>>, free_list |-> <<>>,
     rotation_info |-> <<>>, paragraph |-> FALSE, detail |-> 1,
     decoder |-> "greedy", allowlist |-> {}, blocklist |-> {}, conf |-> << <<1>> >>]

NoBoxes == [horizontal_list |-> <<>>, free_list |-> <<>>]

NoHist == [read |-> {}, complete |-> FALSE, reconfigured |-> FALSE]

NoCall == [op |-> "none", det |-> NoDet, rec |-> NoRec, boxes |-> NoBoxes, out |-> NoOut]

\* Reader(...) runs to its end
Construct ==
    /\ pc = "new"
    /\ LET r == Init__(args, fs)
       IN  /\ pc' = r.pc
           /\ self' = r.self
           /\ self0' = r.self
           /\ fs' = r.fs
           /\ ctor' = r.ctor
           /\ hist' = IF r.pc = "ready"
                      THEN [read |-> args.lang_list, complete |-> TRUE,
                            reconfigured |-> FALSE]
                      ELSE NoHist
    /\ UNCHANGED <<args, call, earlier>>

\* reader.detect(...): `d` is what get_textbox and group_text_box answer, and
\* min_size
Detect(d) ==
    /\ pc = "ready"
    /\ call.op = "none"
    /\ call' = IF ~self.has_detector
               THEN [NoCall EXCEPT !.op = "detect", !.det = d,
                                   !.out = [NoOut EXCEPT !.outcome = "raised",
                                                         !.error = "AttributeError"]]
               ELSE [NoCall EXCEPT !.op = "detect", !.det = d,
                                   !.boxes = DetectFilter(d),
                                   !.out = [NoOut EXCEPT !.outcome = "returned"]]
    /\ UNCHANGED <<pc, args, self, self0, fs, ctor, earlier, hist>>

\* reader.recognize(...)
Recognize(a) ==
    /\ pc = "ready"
    /\ call.op = "none"
    /\ call' = [NoCall EXCEPT !.op = "recognize", !.rec = a, !.out = recognize(self, a)]
    /\ self' = RecognizeSelf(self, a)
    /\ UNCHANGED <<pc, args, self0, fs, ctor, earlier, hist>>

\* reader.readtext(...): detect, then recognize on the boxes detect returned
ReadText(d, a) ==
    /\ pc = "ready"
    /\ call.op = "none"
    /\ IF ~self.has_detector
       THEN /\ call' = [NoCall EXCEPT !.op = "readtext", !.det = d,
                                      !.out = [NoOut EXCEPT !.outcome = "raised",
                                                            !.error = "AttributeError"]]
            /\ self' = self
       ELSE LET boxes == DetectFilter(d)
                b == [a EXCEPT !.given = TRUE,
                               !.horizontal_list = boxes.horizontal_list,
                               !.free_list = boxes.free_list]
            IN  /\ call' = [NoCall EXCEPT !.op = "readtext", !.det = d, !.rec = b,
                                          !.boxes = boxes,
                                          !.out = recognize(self, b)]
                /\ self' = RecognizeSelf(self, b)
    /\ UNCHANGED <<pc, args, self0, fs, ctor, earlier, hist>>

\* the call is over: the caller has its result (or its exception), the frame
\* is gone, the Reader stays
Return ==
    /\ pc = "ready"
    /\ call.op # "none"
    /\ call' = NoCall
    /\ earlier' = TRUE
    /\ UNCHANGED <<pc, args, self, self0, fs, ctor, hist>>

\* reader.setLanguageList(lang_list) on a Reader that is built
SetLanguageList(lang_list) ==
    /\ pc = "ready"
    /\ call.op = "none"
    /\ LET r == setLanguageList(lang_list)
       IN  /\ self' = [self EXCEPT !.lang_char = r.lang_char]
           /\ hist' = [read |-> r.read, complete |-> r.error = "", reconfigured |-> TRUE]
           /\ call' = [NoCall EXCEPT
                         !.op = "setLanguageList",
                         !.out = [NoOut EXCEPT
                                    !.outcome = IF r.error = "" THEN "returned" ELSE "raised",
                                    !.error = r.error]]
    /\ UNCHANGED <<pc, args, self0, fs, ctor, earlier>>

\* reader.setModelLanguage(language, lang_list, list_lang, list_lang_string)
\* on a Reader that is built: model_lang is assigned before the check raises
SetModelLanguage(m) ==
    /\ pc = "ready"
    /\ call.op = "none"
    /\ LET r == setModelLanguage(m.language, m.lang_list, m.list_lang, m.list_lang_string)
       IN  /\ self' = [self EXCEPT !.model_lang = r.model_lang]
           /\ hist' = [hist EXCEPT !.reconfigured = TRUE]
           /\ call' = [NoCall EXCEPT
                         !.op = "setModelLanguage",
                         !.out = [NoOut EXCEPT
                                    !.outcome = IF r.error = "" THEN "returned" ELSE "raised",
                                    !.error = r.error]]
    /\ UNCHANGED <<pc, args, self0, fs, ctor, earlier>>

\* ------------------------------------------------------------ the inputs

\* Reader(...)'s arguments and environment
DefaultArgs ==
    [lang_list |-> {"en"}, gpu |-> "True", cuda_available |-> TRUE,
     recog_network |-> "standard", download_enabled |-> TRUE,
     detector |-> TRUE, recognizer |-> TRUE,
     det_file |-> "good", rec_file |-> "good",
     dl_det |-> "good", dl_rec |-> "good", bad_loads |-> FALSE]

FileStates == {"missing", "bad", "good"}

Downloads == {"good", "bad", "fail"}

LangLists == {L \in SUBSET (all_lang_list \cup UnknownLangs) : Cardinality(L) <= MaxLangs}

\* every language list, on both kinds of network
LangCases ==
    {[DefaultArgs EXCEPT !.lang_list = L, !.recog_network = n] :
        L \in LangLists, n \in {"standard", "custom"}}

\* every state of the two model files, of the switches and of the download
FileCases ==
    {[DefaultArgs EXCEPT !.lang_list = L, !.recog_network = n,
                         !.download_enabled = e, !.detector = x[1], !.recognizer = x[2],
                         !.det_file = f[1], !.rec_file = f[2],
                         !.dl_det = g[1], !.dl_rec = g[2], !.bad_loads = b] :
        L \in {{"en"}, {"te"}}, n \in {"standard", "custom"}, e \in BOOLEAN,
        x \in BOOLEAN \X BOOLEAN, f \in FileStates \X FileStates,
        g \in Downloads \X Downloads, b \in BOOLEAN}

DeviceCases ==
    {[DefaultArgs EXCEPT !.gpu = g, !.cuda_available = c] :
        g \in {"False", "True", "cuda:1"}, c \in BOOLEAN}

CtorCases == LangCases \cup FileCases \cup DeviceCases

\* the Readers the calls are explored on: a latin, a right-to-left and a
\* greedy-only model
ReaderCases ==
    {[DefaultArgs EXCEPT !.lang_list = L] : L \in {{"en"}, {"ar", "en"}, {"ja"}}}

\* boxes: one of zero width, one of size 1, one of size 2 on a lower line
HorizontalBoxes == {<<0, 0, 0, 1>>, <<0, 1, 0, 1>>, <<0, 2, 2, 3>>}

FreeBoxes ==
    { << <<0, 0>>, <<0, 0>>, <<0, 0>>, <<0, 0>> >>,
      << <<0, 0>>, <<2, 0>>, <<2, 1>>, <<0, 1>> >> }

BoxLists ==
    {b \in SeqsUpTo(HorizontalBoxes, 0, MaxBoxes) \X SeqsUpTo(FreeBoxes, 0, MaxBoxes) :
        Len(b[1]) + Len(b[2]) <= MaxBoxes}

\* n boxes none of which is degenerate
Row(n) == [i \in 1..n |-> IF i % 2 = 1 THEN <<0, 1, 0, 1>> ELSE <<0, 2, 2, 3>>]

Angles == {90, 180, 270}

Rotations == {r \in SeqsUpTo(Angles, 0, MaxAngles) : Distinct(r)}

ConfidenceLevels == {1, 2}

FilterChars == {"a", "0", "z"}

DetectCases ==
    {[horizontal_list |-> b[1], free_list |-> b[2], min_size |-> m] :
        b \in BoxLists, m \in 0..MaxMinSize}

\* every list of boxes, degenerate ones included, or no list at all, with and
\* without rotation hints and paragraph mode
BoxCases ==
    {[NoRec EXCEPT !.given = g[1], !.horizontal_list = g[2], !.free_list = g[3],
                   !.rotation_info = r, !.paragraph = p, !.conf = << <<1, 2>> >>] :
        g \in {<<TRUE, b[1], b[2]>> : b \in BoxLists} \cup {<<FALSE, <<>>, <<>>>>},
        r \in {<<>>, <<180>>, <<270, 90>>}, p \in BOOLEAN}

\* the confidences the recognizer may give k + 1 variants of n boxes
ConfidenceRows(n, k) == [1..Min(n, 2) -> [1..(k + 1) -> ConfidenceLevels]]

\* every order of candidate angles and every confidence of every variant
CollapseCases ==
    UNION {{[NoRec EXCEPT !.horizontal_list = Row(n[1]), !.rotation_info = r,
                          !.conf = n[2]] :
                n \in UNION {{<<m, c>> : c \in ConfidenceRows(m, Len(r))} : m \in 1..MaxBoxes}} :
           r \in Rotations \ {<<>>}}

FilterCases ==
    {[NoRec EXCEPT !.horizontal_list = Row(1), !.allowlist = w, !.blocklist = k] :
        w \in SUBSET FilterChars, k \in SUBSET FilterChars}

DetailCases ==
    {[NoRec EXCEPT !.horizontal_list = Row(2), !.detail = d, !.decoder = x,
                   !.rotation_info = r, !.paragraph = p,
                   !.conf = << <<2, 1>>, <<1, 1>> >>] :
        d \in {0, 1}, x \in {"greedy", "beamsearch", "wordbeamsearch"},
        r \in {<<>>, <<90>>}, p \in BOOLEAN}

\* every list of boxes that can be cropped, in every order, under every level
\* of detail, without rotation hints or paragraph mode
OrderCases ==
    {[NoRec EXCEPT !.horizontal_list = b[1], !.free_list = b[2], !.detail = d] :
        b \in {c \in BoxLists :
                  /\ \A i \in 1..Len(c[1]) : ~DegenerateQuad(Quad(c[1][i]))
                  /\ \A i \in 1..Len(c[2]) : ~DegenerateQuad(c[2][i])},
        d \in {0, 1, 2}}

RecognizeCases ==
    BoxCases \cup CollapseCases \cup FilterCases \cup DetailCases \cup OrderCases

\* readtext: what the detector finds, min_size, and the recognition options
ReadDetectCases == {d \in DetectCases : d.min_size = 1}

ReadRecognizeCases ==
    {[NoRec EXCEPT !.rotation_info = r, !.paragraph = p, !.conf = << <<1, 2>> >>] :
        r \in {<<>>, <<90>>}, p \in BOOLEAN}

\* setLanguageList: a list every file of which is there, and one without file
LanguageListCases == {<<"fr">>, <<"xx">>}

\* setModelLanguage: a group that covers the list and one that does not, the
\* fourth argument a string as in the calls of the standard network
ModelLanguageCases ==
    {[language |-> "arabic", lang_list |-> L, list_lang |-> arabic_lang_list \cup {"en"},
      list_lang_string |-> "str"] : L \in {{"ar", "en"}, {"ar", "ja"}}}

\* ------------------------------------------------------ specifications

InitWith(cases) ==
    /\ args \in cases
    /\ pc = "new"
    /\ self = NoSelf
    /\ self0 = NoSelf
    /\ fs = [det |-> args.det_file, rec |-> args.rec_file]
    /\ ctor = NoCtor
    /\ call = NoCall
    /\ earlier = FALSE
    /\ hist = NoHist

Init == InitWith(ReaderCases)

Next ==
    \/ Construct
    \/ \E d \in DetectCases : Detect(d)
    \/ \E a \in RecognizeCases : Recognize(a)
    \/ \E d \in ReadDetectCases, a \in ReadRecognizeCases : ReadText(d, a)
    \/ \E l \in LanguageListCases : SetLanguageList(l)
    \/ \E m \in ModelLanguageCases : SetModelLanguage(m)
    \/ Return

\* a Reader and the calls made on it
Spec == Init /\ [][Next]_vars

InitCtor == InitWith(CtorCases)

NextCtor ==
    \/ Construct
    \/ \E d \in {[NoDet EXCEPT !.horizontal_list = Row(1)]} : Detect(d)
    \/ \E a \in {[NoRec EXCEPT !.horizontal_list = Row(1)]} : Recognize(a)
    \/ \E d \in {[NoDet EXCEPT !.horizontal_list = Row(1)]}, a \in {NoRec} : ReadText(d, a)
    \/ \E l \in {<<"fr">>} : SetLanguageList(l)
    \/ \E m \in {[language |-> "latin", lang_list |-> {"xx"}, list_lang |-> latin_lang_list,
                   list_lang_string |-> "list"]} : SetModelLanguage(m)
    \/ Return

\* construction under every argument and environment, and a first call
SpecCtor == InitCtor /\ [][NextCtor]_vars

\* ------------------------------------------------------------ the claims

\* a recognize or readtext call has come to its end
Finished == pc = "ready" /\ call.op \in {"recognize", "readtext"}

Returned == Finished /\ call.out.outcome = "returned"

\* the boxes recognize was given (the whole image counts as one)
OriginalBoxes ==
    IF call.rec.given
    THEN Len(call.rec.horizontal_list) + Len(call.rec.free_list)
    ELSE 1

Rotated == call.rec.rotation_info # <<>>

\* the image the i-th returned result was read from
ChosenImg(i) ==
    IF call.rec.detail = 0 THEN call.out.result[i].img ELSE call.out.result[i].text.img

\* C1: a recognize call with rotation hints and paragraph mode off returns
\* exactly one result per original box, however many variants were recognized.
C1_OneResultPerBox ==
    (Returned /\ Rotated /\ ~call.rec.paragraph)
        => Len(call.out.result) = OriginalBoxes

C1_Witness ==
    /\ Returned /\ Rotated /\ ~call.rec.paragraph
    /\ Len(call.rec.rotation_info) = 2
    /\ OriginalBoxes = 2
    /\ Len(call.out.raw) = 6
    /\ Len(call.out.result) = 2

\* C3: with rotation hints and paragraph mode, the collapse runs before the
\* Paragraph Reconstructor, which receives one result per original box.
C3_ParagraphAfterCollapse ==
    (Finished /\ Rotated /\ call.out.para_called)
        => /\ Len(call.out.para_in) = call.out.image_len
           /\ \A k, l \in 1..Len(call.out.stages) :
                 (call.out.stages[k] = "set_result_with_confidence"
                  /\ call.out.stages[l] = "get_paragraph") => k < l

\* the boxes of the call that are not degenerate
ValidBoxes ==
    {i \in 1..Len(call.rec.horizontal_list) :
        ~DegenerateQuad(Quad(call.rec.horizontal_list[i]))}

ValidFreeBoxes ==
    {i \in 1..Len(call.rec.free_list) : ~DegenerateQuad(call.rec.free_list[i])}

\* C4: a degenerate box is dropped and the call still returns the results of
\* the other boxes of the batch.
C4_DegenerateBoxDropped ==
    (Finished /\ call.rec.given /\ ~Rotated /\ ~call.rec.paragraph
     /\ Cardinality(ValidBoxes) + Cardinality(ValidFreeBoxes) < OriginalBoxes)
        => /\ call.out.outcome = "returned"
           /\ Len(call.out.result) = Cardinality(ValidBoxes) + Cardinality(ValidFreeBoxes)

\* the model group the language list selects: the first group in the fixed
\* priority one of whose own languages is requested, else latin
GroupPriority ==
    <<"thai", "chinese_tra", "chinese_sim", "japanese", "korean", "tamil", "telugu",
      "kannada", "bengali", "arabic", "devanagari", "cyrillic">>

GroupLanguages(g) ==
    CASE g = "thai" -> {"th"}
      [] g = "chinese_tra" -> {"ch_tra"}
      [] g = "chinese_sim" -> {"ch_sim"}
      [] g = "japanese" -> {"ja"}
      [] g = "korean" -> {"ko"}
      [] g = "tamil" -> {"ta"}
      [] g = "telugu" -> {"te"}
      [] g = "kannada" -> {"kn"}
      [] g = "bengali" -> {"bn", "as"}
      [] g = "arabic" -> {"ar", "fa", "ur", "ug"}
      [] g = "devanagari" -> {"hi", "mr", "ne"}
      [] g = "cyrillic" -> {"ru", "rs_cyrillic", "be", "bg", "uk", "mn"}
      [] g = "latin" -> latin_lang_list

SelectedGroup(L) ==
    LET hits == {k \in 1..Len(GroupPriority) : GroupLanguages(GroupPriority[k]) \cap L # {}}
    IN  IF hits = {} THEN "latin" ELSE GroupPriority[SetMin(hits)]

CompatibleList(g) == GroupLanguages(g) \cup {"en"}

\* C5: with the standard network, construction raises, and no call runs on the
\* Reader, whenever a requested language is outside the compatible list (own
\* languages plus English) of the group selected by the fixed priority; a
\* Reader that is built was given that group's model.
C5_LanguageCheck ==
    (pc # "new" /\ args.recog_network = "standard")
        => /\ ~(args.lang_list \subseteq CompatibleList(SelectedGroup(args.lang_list)))
                 => (pc = "failed" /\ call.op = "none" /\ ~earlier)
           /\ pc = "ready" => self0.model_lang = SelectedGroup(args.lang_list)

C5_Witness ==
    /\ pc = "failed"
    /\ args.recog_network = "standard"
    /\ args.lang_list = {"ch_sim", "ja"}
    /\ ctor.error = "ValueError"

\* C6 as claimed: construction never completes, and never loads a network,
\* with an enabled model file that is missing or fails its checksum, whatever
\* the recog_network.
C6_AllFilesVerified ==
    pc # "new"
        => /\ ctor.det_loaded_from \in {"none", "good"}
           /\ ctor.rec_loaded_from \in {"none", "good"}
           /\ (pc = "ready" /\ args.detector) => fs.det = "good"
           /\ (pc = "ready" /\ args.recognizer) => fs.rec = "good"

\* C6 as amended: the same for the detector model and for the recognition
\* model of the standard network; without downloads a file that is not good
\* aborts construction, with downloads it is fetched again and construction
\* aborts unless the fetched file passes the checksum.
C6_StandardFilesVerified ==
    pc # "new"
        => /\ ctor.det_loaded_from \in {"none", "good"}
           /\ args.recog_network = "standard" => ctor.rec_loaded_from \in {"none", "good"}
           /\ (pc = "ready" /\ args.detector)
                 => /\ fs.det = "good"
                    /\ args.det_file # "good"
                          => (args.download_enabled /\ args.dl_det = "good")
           /\ (pc = "ready" /\ args.recognizer /\ args.recog_network = "standard")
                 => /\ fs.rec = "good"
                    /\ args.rec_file # "good"
                          => (args.download_enabled /\ args.dl_rec = "good")

C6_Witness ==
    /\ pc = "failed"
    /\ args.recog_network = "standard"
    /\ args.recognizer /\ args.download_enabled
    /\ args.rec_file = "bad" /\ args.dl_rec = "bad"
    /\ ctor.error = "AssertionError"
    /\ ctor.rec_loaded_from = "none"

\* C7: detect returns exactly the clusterer's boxes whose larger dimension is
\* not smaller than min_size, in their order.
C7_KeepsMinSize ==
    (pc = "ready" /\ call.op = "detect" /\ call.out.outcome = "returned")
        => /\ call.boxes.horizontal_list =
                 SelectSeq(call.det.horizontal_list,
                           LAMBDA b : HorizontalSize(b) >= call.det.min_size)
           /\ call.boxes.free_list =
                 SelectSeq(call.det.free_list,
                           LAMBDA q : FreeSize(q) >= call.det.min_size)

\* C8: whatever detect, recognize and readtext calls were made on a Reader,
\* and no other, its character set, its language character set, its model
\* language and its device are those construction left.
C8_ConfigurationUnchanged ==
    (pc = "ready" /\ ~hist.reconfigured)
        => /\ self.character = self0.character
           /\ self.lang_char = self0.lang_char
           /\ self.model_lang = self0.model_lang
           /\ self.device = self0.device

C8_Witness ==
    /\ pc = "ready" /\ earlier /\ ~hist.reconfigured
    /\ call.op = "recognize" /\ call.out.outcome = "returned"
    /\ call.rec.allowlist # {} /\ call.rec.blocklist # {}
    /\ self.model_lang = "arabic"
    /\ self.character # {}

\* the native characters of the requested languages: those handed to the
\* constructor, or to setLanguageList since
NativeCharacters == UNION {LangCharFile(lang) : lang \in hist.read}

\* the call got as far as building the filter
FilterBuilt ==
    /\ Finished
    /\ call.out.stages # <<>>
    /\ call.out.error # "DegenerateBoxError"

\* C9 as claimed: ignore_char is the model set minus the allowlist, else the
\* blocklist, else the model set minus the requested languages' native set.
C9_IgnoreNative ==
    FilterBuilt
        => call.out.ignore_char =
              (IF call.rec.allowlist # {} THEN self0.character \ call.rec.allowlist
               ELSE IF call.rec.blocklist # {} THEN call.rec.blocklist
               ELSE self0.character \ NativeCharacters)

\* C9 as amended: in the default case the digits and symbols are kept as
\* well: ignore_char is the model set minus the native characters, the digits
\* and the symbols.  After a setLanguageList call that raised, the native
\* characters are those of the languages read before the one that failed, and
\* the digits and symbols are not kept.
C9_IgnoreNativeDigitsSymbols ==
    FilterBuilt
        => call.out.ignore_char =
              (IF call.rec.allowlist # {} THEN self0.character \ call.rec.allowlist
               ELSE IF call.rec.blocklist # {} THEN call.rec.blocklist
               ELSE IF hist.complete
               THEN self0.character \ (NativeCharacters \cup number \cup symbol)
               ELSE self0.character \ NativeCharacters)

C9_Witness ==
    /\ FilterBuilt
    /\ call.rec.allowlist = {} /\ call.rec.blocklist = {}
    /\ args.lang_list = {"ja"}
    /\ ~hist.reconfigured
    /\ call.out.ignore_char = {"a"}
    /\ (number \cup symbol) \subseteq self.character \ NativeCharacters

\* C10: collapsing a list that holds one result per original box again leaves
\* it as it is, the same results in the same order.
C10_CollapseIdempotent ==
    (Returned /\ call.rec.detail # 0 /\ ~call.rec.paragraph /\ call.out.image_len > 0)
        => set_result_with_confidence(call.out.result, call.out.image_len)
              = [error |-> "", result |-> call.out.result]

C10_Witness ==
    /\ Returned /\ Rotated /\ call.rec.detail # 0 /\ ~call.rec.paragraph
    /\ Len(call.out.result) = 2
    /\ call.out.result[1].conf < call.out.result[2].conf
    /\ call.out.result[1].text.img[2] # call.out.result[2].text.img[2]

\* the boxes recognize was given, in the order the crops are cut: the
\* horizontal boxes, then the free-form ones
InputBoxes ==
    [i \in 1..Len(call.rec.horizontal_list) |-> Quad(call.rec.horizontal_list[i])]
        \o call.rec.free_list

\* what the same call returns in full detail
FullResult == recognize(self, [call.rec EXCEPT !.detail = 1]).result

Plain == Returned /\ call.rec.given /\ ~Rotated /\ ~call.rec.paragraph

\* C11: a recognize call on boxes, without rotation hints and without paragraph
\* mode, returns one result per input box, the i-th read from the i-th box
\* (horizontal boxes first, then free-form boxes, each list in the caller's
\* order); with detail >= 1 the i-th result carries the i-th box, and with
\* detail = 0 the list returned is the texts of those results, as many and in
\* the same order.
C11_InputOrder ==
    Plain
        => /\ Len(call.out.result) = Len(InputBoxes)
           /\ \A i \in 1..Len(call.out.result) : ChosenImg(i) = <<i, 0>>
           /\ Len(FullResult) = Len(InputBoxes)
           /\ \A i \in 1..Len(FullResult) :
                 /\ FullResult[i].box = InputBoxes[i]
                 /\ FullResult[i].text.img = <<i, 0>>
           /\ call.rec.detail >= 1 => call.out.result = FullResult
           /\ call.rec.detail = 0
                 => call.out.result = [i \in 1..Len(FullResult) |-> FullResult[i].text]

C11_Witness ==
    /\ Plain
    /\ call.rec.detail = 0
    /\ Len(call.rec.horizontal_list) = 1
    /\ Len(call.rec.free_list) = 1
    /\ Len(call.out.result) = 2
    /\ call.out.result[1].img = <<1, 0>>
    /\ call.out.result[2].img = <<2, 0>>
    /\ FullResult[1].box = Quad(call.rec.horizontal_list[1])
    /\ FullResult[2].box = call.rec.free_list[1]

====
